---- MODULE Spec2Model ----
(***************************************************************************)
(* Model of vcf_con.py: the command-line scan of __main__, the dispatch of *)
(* analyze_vcf_concordance, the per-file loop of create_venn_diagram and   *)
(* create_upset_plot, and read_vcf_variants record by record.              *)
(*                                                                         *)
(* A Python string is a sequence of atoms ("a", "/", ".vcf", ...): the     *)
(* suffix tests, basename, str.replace and os.path.join work on the atoms  *)
(* as the Python functions work on the characters.  A value that may be    *)
(* None is a sequence of length 0 (None) or 1 (the value).                 *)
(***************************************************************************)
EXTENDS Integers, Sequences, FiniteSets

\* ------------------------------------------------------------------ bounds

\* Longest argument list (sys.argv without the program name) of the
\* command-line family of inputs.
MaxArgs == 6

\* Most records in the file whose content ranges over every record list.
MaxRecs == 3

\* ----------------------------------------------------------------- strings

None == <<>>

Some(x) == <<x>>

EmptyStr == <<>>

Prog == <<"vcf_con", ".py">>

OptOutput == <<"--output">>

FileA == <<"a", ".vcf">>

FileDA == <<"d", "/", "a", ".vcf">>

FileB == <<"b", ".vcf", ".gz">>

FileC == <<"c", ".vcf">>

DirD == <<"d">>

OutPng == <<"o", ".png">>

\* The input paths the file system holds.
FilePaths == {FileA, FileDA, FileB, FileC}

\* os.path.isdir: the directories that exist (d holds d/a.vcf).
ExistingDirs == {DirD}

isdir(p) == p \in ExistingDirs

endswith(s, suffix) ==
    /\ Len(s) >= Len(suffix)
    /\ SubSeq(s, Len(s) - Len(suffix) + 1, Len(s)) = suffix

\* arg.endswith('.vcf') or arg.endswith('.vcf.gz')
is_vcf_arg(arg) == endswith(arg, <<".vcf">>) \/ endswith(arg, <<".vcf", ".gz">>)

\* os.path.basename: what follows the last "/".
basename(p) ==
    LET slashes == {j \in 1..Len(p) : p[j] = "/"}
        last == IF slashes = {} THEN 0
                ELSE CHOOSE j \in slashes : \A m \in slashes : m <= j
    IN SubSeq(p, last + 1, Len(p))

IsNotVcfAtom(a) == a # ".vcf"

\* s.replace('.vcf', ''): every occurrence is removed.
replace_vcf(s) == SelectSeq(s, IsNotVcfAtom)

\* os.path.basename(f).replace('.vcf', '')
label_of(f) == replace_vcf(basename(f))

\* os.path.join(a, b) for a relative b.
os_path_join(a, b) ==
    IF a = EmptyStr \/ endswith(a, <<"/">>) THEN a \o b ELSE a \o <<"/">> \o b

DefaultName == <<"vcf_concordance", ".png">>

\* Mutant of resolve_output: the directory itself is used as the image path.
resolve_output_verbatim(out) == out

\* "if output_file and os.path.isdir(output_file): output_file = join(...)"
resolve_output(out) ==
    IF out # None /\ out[1] # EmptyStr /\ isdir(out[1])
    THEN Some(os_path_join(out[1], DefaultName))
    ELSE out

\* Truth value of output_file in "if output_file:".
truthy(out) == out # None /\ out[1] # EmptyStr

\* ----------------------------------------------------------------- records

Rec(c, p, r, a, q) == [CHROM |-> c, POS |-> p, REF |-> r, ALT |-> a, QUAL |-> q]

R1 == Rec("1", 1, "A", <<"T">>, 10)

\* R1 with another quality and a second alternate allele.
R2 == Rec("1", 1, "A", <<"T", "G">>, 20)

\* No alternate allele.
R3 == Rec("1", 1, "A", <<>>, 10)

R4 == Rec("1", 2, "A", <<>>, 20)

\* The alleles of R2 in the other order.
R5 == Rec("1", 1, "A", <<"G", "T">>, 10)

\* R1 on another chromosome, and with another reference allele.
R6 == Rec("2", 1, "A", <<"T">>, 10)

R7 == Rec("1", 1, "C", <<"T">>, 10)

RecPool == {R1, R2, R3, R4, R5, R6, R7}

\* Mutant of variant_id: the last alternate allele instead of the first.
variant_id_last_alt(variant) ==
    <<variant.CHROM, variant.POS, variant.REF,
      IF variant.ALT # <<>> THEN variant.ALT[Len(variant.ALT)] ELSE "">>

\* alt = variant.ALT[0] if variant.ALT else ""
\* variant_id = (variant.CHROM, variant.POS, variant.REF, alt)
variant_id(variant) ==
    <<variant.CHROM, variant.POS, variant.REF,
      IF variant.ALT # <<>> THEN variant.ALT[1] ELSE "">>

\* ------------------------------------------------------------- file system

\* A file: the records the parser yields, then end of file ("eof") or a
\* parse error ("error"); a file that cannot be opened is "noopen".
Content(recs, end) == [recs |-> recs, end |-> end]

Unopenable == Content(<<>>, "noopen")

SeqsUpTo(S, n) == UNION {[1..m -> S] : m \in 0..n}

AllContents ==
    {Content(s, e) : s \in SeqsUpTo(RecPool, MaxRecs), e \in {"eof", "error"}}
        \cup {Unopenable}

BaseDisk ==
    [p \in FilePaths |->
        IF p = FileA THEN Content(<<R1, R3>>, "eof")
        ELSE IF p = FileDA THEN Content(<<R3, R4>>, "eof")
        ELSE IF p = FileB THEN Content(<<R2, R4, R6>>, "eof")
        ELSE Content(<<R1>>, "error")]

ContentPool ==
    {Content(<<R1, R3>>, "eof"), Content(<<R3, R4>>, "eof"), Content(<<R1>>, "error"),
     Content(<<>>, "eof"), Unopenable}

\* ------------------------------------------------------------------ inputs

CliTokens == {FileA, OptOutput, DirD, EmptyStr, OutPng}

\* Command lines: every argument list up to MaxArgs over the tokens.
ArgvCli == {<<Prog>> \o s : s \in SeqsUpTo(CliTokens, MaxArgs)}

IsInjective(s) == \A x, y \in 1..Len(s) : s[x] = s[y] => x = y

\* Lists of distinct input paths.
ArgvSets ==
    {<<Prog>> \o s : s \in {t \in SeqsUpTo(FilePaths, Cardinality(FilePaths)) :
                              Len(t) >= 2 /\ IsInjective(t)}}

\* Record lists for the file whose content ranges over every record list.
ArgvRead == {<<Prog, FileA, FileB>>}

\* ---------------------------------------------------------- drawing library

\* venn2([A, B]): the sizes of the regions A only, B only, A and B.
venn2(A, B) == <<Cardinality(A \ B), Cardinality(B \ A), Cardinality(A \cap B)>>

\* venn3([A, B, C]): the seven regions Abc, aBc, ABc, abC, AbC, aBC, ABC.
venn3(A, B, C) ==
    <<Cardinality(A \ (B \cup C)), Cardinality(B \ (A \cup C)),
      Cardinality((A \cap B) \ C), Cardinality(C \ (A \cup B)),
      Cardinality((A \cap C) \ B), Cardinality((B \cap C) \ A),
      Cardinality(A \cap B \cap C)>>

\* from_contents(variant_sets): every element of any set of the dictionary,
\* with the set of the keys whose set holds it.
from_contents(d) ==
    [x \in UNION {d[l] : l \in DOMAIN d} |-> {l \in DOMAIN d : x \in d[l]}]

\* The bars of the UpSet plot: each membership pattern with its count.
upset_counts(data) ==
    [pat \in {data[x] : x \in DOMAIN data} |->
        Cardinality({x \in DOMAIN data : data[x] = pat})]

NoFigure == [kind |-> "none"]

\* ------------------------------------------------------------------- state

VARIABLES
    sys_argv,      \* sys.argv: the program name, then the arguments
    disk,          \* the file system: the content of every input path
    pc,            \* position in the program
    i,             \* __main__: index into sys.argv
    vcf_files,     \* __main__: the recognized input paths, in order
    output_file,   \* __main__: None, or the value of --output
    raw_output,    \* history: the value last assigned at line 97
    func,          \* "venn" or "upset": the function analyze called
    labels,        \* create_*: the label of every input
    variant_sets,  \* create_*: the dictionary label -> set
    k,             \* create_*: position of the zip loop
    variants,      \* read_vcf_variants: the set built so far
    pos,           \* read_vcf_variants: records the reader has yielded
    handles,       \* the open readers, by position of their file
    opened,        \* history: the paths VCF() was called on, in order
    fileSets,      \* history: what read_vcf_variants returned, per input
    figure,        \* what was drawn
    saved,         \* None, or the path plt.savefig wrote
    shown,         \* plt.show() was called
    stdout,        \* the lines printed to standard output
    stderr,        \* the lines printed to the error stream
    exit_status    \* None while running, else the status

vars == <<sys_argv, disk, pc, i, vcf_files, output_file, raw_output, func,
          labels, variant_sets, k, variants, pos, handles, opened, fileSets,
          figure, saved, shown, stdout, stderr, exit_status>>

Line(text, arg) == [text |-> text, arg |-> arg]

EmptyDict == [l \in {} |-> {}]

Inputs ==
    \/ sys_argv \in ArgvCli /\ disk \in {BaseDisk, [BaseDisk EXCEPT ![FileA] = Unopenable]}
    \/ sys_argv \in ArgvSets /\ disk \in [FilePaths -> ContentPool]
    \/ sys_argv \in ArgvRead /\ disk \in {[BaseDisk EXCEPT ![FileA] = c] : c \in AllContents}

Init ==
    /\ Inputs
    /\ pc = "main"
    /\ i = 1
    /\ vcf_files = <<>>
    /\ output_file = None
    /\ raw_output = None
    /\ func = "none"
    /\ labels = <<>>
    /\ variant_sets = EmptyDict
    /\ k = 1
    /\ variants = {}
    /\ pos = 0
    /\ handles = {}
    /\ opened = <<>>
    /\ fileSets = <<>>
    /\ figure = NoFigure
    /\ saved = None
    /\ shown = FALSE
    /\ stdout = <<>>
    /\ stderr = <<>>
    /\ exit_status = None

\* sys.argv[j] for the Python index j.
argv(j) == sys_argv[j + 1]

mainVars == <<i, vcf_files, output_file, raw_output>>

readVars == <<variants, pos, handles, opened, fileSets>>

loopVars == <<func, labels, variant_sets, k>>

plotVars == <<figure, saved, shown>>

envVars == <<sys_argv, disk>>

\* ---------------------------------------------------------------- __main__

\* Lines 84-90.
MainStart ==
    /\ pc = "main"
    /\ IF Len(sys_argv) < 3
       THEN /\ stdout' = Append(stdout, Line("Usage", EmptyStr))
            /\ exit_status' = Some(1)
            /\ pc' = "done"
       ELSE /\ pc' = "scan"
            /\ UNCHANGED <<stdout, exit_status>>
    /\ UNCHANGED <<envVars, mainVars, loopVars, readVars, plotVars, stderr>>

\* Lines 93-95.
ScanFile ==
    /\ pc = "scan"
    /\ i < Len(sys_argv)
    /\ is_vcf_arg(argv(i))
    /\ vcf_files' = Append(vcf_files, argv(i))
    /\ i' = i + 1
    /\ UNCHANGED <<envVars, pc, output_file, raw_output, loopVars, readVars,
                   plotVars, stdout, stderr, exit_status>>

\* Lines 96-98, sys.argv[i+1] in range.
ScanOutput ==
    /\ pc = "scan"
    /\ i < Len(sys_argv)
    /\ ~is_vcf_arg(argv(i))
    /\ argv(i) = OptOutput
    /\ i + 1 < Len(sys_argv)
    /\ output_file' = Some(argv(i + 1))
    /\ raw_output' = Some(argv(i + 1))
    /\ i' = i + 2
    /\ UNCHANGED <<envVars, pc, vcf_files, loopVars, readVars, plotVars,
                   stdout, stderr, exit_status>>

\* Line 97 with --output as the last argument: sys.argv[i+1] raises
\* IndexError, which nothing catches; the interpreter prints the traceback
\* and ends with status 1.
ScanOutputIndexError ==
    /\ pc = "scan"
    /\ i < Len(sys_argv)
    /\ ~is_vcf_arg(argv(i))
    /\ argv(i) = OptOutput
    /\ ~(i + 1 < Len(sys_argv))
    /\ stderr' = Append(stderr, Line("IndexError", EmptyStr))
    /\ exit_status' = Some(1)
    /\ pc' = "done"
    /\ UNCHANGED <<envVars, mainVars, loopVars, readVars, plotVars, stdout>>

\* Lines 99-100.
ScanSkip ==
    /\ pc = "scan"
    /\ i < Len(sys_argv)
    /\ ~is_vcf_arg(argv(i))
    /\ argv(i) # OptOutput
    /\ i' = i + 1
    /\ UNCHANGED <<envVars, pc, vcf_files, output_file, raw_output, loopVars,
                   readVars, plotVars, stdout, stderr, exit_status>>

\* Lines 102-110: the loop is over.
ScanEnd ==
    /\ pc = "scan"
    /\ ~(i < Len(sys_argv))
    /\ IF Len(vcf_files) < 2
       THEN /\ stdout' = Append(stdout,
                Line("Please provide at least 2 VCF files for comparison.", EmptyStr))
            /\ exit_status' = Some(1)
            /\ pc' = "done"
            /\ UNCHANGED output_file
       ELSE /\ output_file' = resolve_output(output_file)
            /\ pc' = "analyze"
            /\ UNCHANGED <<stdout, exit_status>>
    /\ UNCHANGED <<envVars, i, vcf_files, raw_output, loopVars, readVars,
                   plotVars, stderr>>

\* ------------------------------------------------- analyze_vcf_concordance

\* Lines 74-81, and the first lines of the function called (27-28, 55-56).
analyze_vcf_concordance ==
    /\ pc = "analyze"
    /\ IF Len(vcf_files) < 2
       THEN /\ stdout' = Append(stdout,
                Line("Please provide at least 2 VCF files for comparison.", EmptyStr))
            /\ pc' = "exit"
            /\ UNCHANGED <<func, labels, variant_sets, k>>
       ELSE /\ func' = IF Len(vcf_files) <= 3 THEN "venn" ELSE "upset"
            /\ variant_sets' = EmptyDict
            /\ labels' = [j \in 1..Len(vcf_files) |-> label_of(vcf_files[j])]
            /\ k' = 1
            /\ pc' = "loop"
            /\ UNCHANGED stdout
    /\ UNCHANGED <<envVars, mainVars, readVars, plotVars, stderr, exit_status>>

\* ---------------------------- the loop of create_venn_diagram / upset_plot

\* Lines 30-31 and 58-59: the next pair of the zip; read_vcf_variants is
\* entered (line 13), or the loop is over.
LoopNext ==
    /\ pc = "loop"
    /\ IF k <= Len(vcf_files)
       THEN /\ variants' = {}
            /\ pos' = 0
            /\ pc' = "open"
       ELSE /\ pc' = "plot"
            /\ UNCHANGED <<variants, pos>>
    /\ UNCHANGED <<envVars, mainVars, loopVars, handles, opened, fileSets,
                   plotVars, stdout, stderr, exit_status>>

\* -------------------------------------------------------- read_vcf_variants

\* Mutant of ReleaseHandle: the reader of a file stays open.
ReleaseHandleNever(h, idx) == h

\* Line 23: the function returns, and its local reader, the only reference
\* to the VCF object, is dropped: the object is deallocated and closes its
\* file (CPython's reference counting).
ReleaseHandle(h, idx) == h \ {idx}

\* Mutant of CaughtResult: the handler empties the set.
CaughtResultCleared(vs) == {}

\* Lines 21-23: the handler leaves the set as the loop left it.
CaughtResult(vs) == vs

\* Line 15: reader = VCF(vcf_file).
ReaderOpen ==
    /\ pc = "open"
    /\ disk[vcf_files[k]].end # "noopen"
    /\ handles' = handles \cup {k}
    /\ opened' = Append(opened, vcf_files[k])
    /\ pc' = "iter"
    /\ UNCHANGED <<envVars, mainVars, loopVars, variants, pos, fileSets,
                   plotVars, stdout, stderr, exit_status>>

\* Line 15 raises: no reader exists.
ReaderOpenFail ==
    /\ pc = "open"
    /\ disk[vcf_files[k]].end = "noopen"
    /\ opened' = Append(opened, vcf_files[k])
    /\ pc' = "except"
    /\ UNCHANGED <<envVars, mainVars, loopVars, variants, pos, handles,
                   fileSets, plotVars, stdout, stderr, exit_status>>

\* Lines 16-20: one record.
NextRecord ==
    /\ pc = "iter"
    /\ pos < Len(disk[vcf_files[k]].recs)
    /\ variants' = variants \cup {variant_id(disk[vcf_files[k]].recs[pos + 1])}
    /\ pos' = pos + 1
    /\ UNCHANGED <<envVars, mainVars, loopVars, pc, handles, opened, fileSets,
                   plotVars, stdout, stderr, exit_status>>

\* Line 16: the reader is exhausted.
IterStop ==
    /\ pc = "iter"
    /\ pos = Len(disk[vcf_files[k]].recs)
    /\ disk[vcf_files[k]].end = "eof"
    /\ pc' = "return"
    /\ UNCHANGED <<envVars, mainVars, loopVars, readVars, plotVars, stdout,
                   stderr, exit_status>>

\* Line 16: fetching the next record raises.
IterError ==
    /\ pc = "iter"
    /\ pos = Len(disk[vcf_files[k]].recs)
    /\ disk[vcf_files[k]].end = "error"
    /\ pc' = "except"
    /\ UNCHANGED <<envVars, mainVars, loopVars, readVars, plotVars, stdout,
                   stderr, exit_status>>

\* Lines 21-22.
Except ==
    /\ pc = "except"
    /\ stderr' = Append(stderr, Line("Error reading", vcf_files[k]))
    /\ variants' = CaughtResult(variants)
    /\ pc' = "return"
    /\ UNCHANGED <<envVars, mainVars, loopVars, pos, handles, opened, fileSets,
                   plotVars, stdout, exit_status>>

\* Line 23, and the assignment of lines 31 and 59.
ReadReturn ==
    /\ pc = "return"
    /\ handles' = ReleaseHandle(handles, k)
    /\ fileSets' = Append(fileSets, variants)
    /\ variant_sets' =
           [l \in DOMAIN variant_sets \cup {labels[k]} |->
               IF l = labels[k] THEN variants ELSE variant_sets[l]]
    /\ k' = k + 1
    /\ pc' = "loop"
    /\ UNCHANGED <<envVars, mainVars, func, labels, variants, pos, opened,
                   plotVars, stdout, stderr, exit_status>>

\* --------------------------------------------------------------- rendering

\* plt.savefig(output_file, ...) and the confirmation, or plt.show().
Output(what) ==
    IF truthy(output_file)
    THEN /\ saved' = output_file
         /\ stdout' = Append(stdout, Line(what, output_file[1]))
         /\ UNCHANGED shown
    ELSE /\ shown' = TRUE
         /\ UNCHANGED <<saved, stdout>>

\* Lines 33-51 of create_venn_diagram.
VennPlot ==
    /\ pc = "plot"
    /\ func = "venn"
    /\ IF Len(vcf_files) = 2
       THEN /\ figure' = [kind |-> "venn2",
                          sets |-> <<variant_sets[labels[1]], variant_sets[labels[2]]>>,
                          set_labels |-> labels,
                          regions |-> venn2(variant_sets[labels[1]],
                                            variant_sets[labels[2]])]
            /\ Output("Venn diagram saved to")
            /\ pc' = "exit"
            /\ UNCHANGED <<func, variant_sets, k, fileSets, opened>>
       ELSE IF Len(vcf_files) = 3
       THEN /\ figure' = [kind |-> "venn3",
                          sets |-> <<variant_sets[labels[1]], variant_sets[labels[2]],
                                     variant_sets[labels[3]]>>,
                          set_labels |-> labels,
                          regions |-> venn3(variant_sets[labels[1]],
                                            variant_sets[labels[2]],
                                            variant_sets[labels[3]])]
            /\ Output("Venn diagram saved to")
            /\ pc' = "exit"
            /\ UNCHANGED <<func, variant_sets, k, fileSets, opened>>
       ELSE \* lines 41-43: create_upset_plot is called, and reads again
            /\ stdout' = Append(stdout, Line(
                   "Venn diagrams are not recommended for more than 3 sets. Using UpSet plot instead.",
                   EmptyStr))
            /\ func' = "upset"
            /\ variant_sets' = EmptyDict
            /\ k' = 1
            /\ fileSets' = <<>>
            /\ opened' = <<>>
            /\ pc' = "loop"
            /\ UNCHANGED <<figure, saved, shown>>
    /\ UNCHANGED <<envVars, mainVars, labels, variants, pos, handles, stderr,
                   exit_status>>

\* Lines 61-70 of create_upset_plot.
UpsetPlot ==
    /\ pc = "plot"
    /\ func = "upset"
    /\ figure' = [kind |-> "upset",
                  data |-> from_contents(variant_sets),
                  bars |-> upset_counts(from_contents(variant_sets))]
    /\ Output("UpSet plot saved to")
    /\ pc' = "exit"
    /\ UNCHANGED <<envVars, mainVars, loopVars, readVars, stderr, exit_status>>

\* The script ends after line 110.
Exit ==
    /\ pc = "exit"
    /\ exit_status' = Some(0)
    /\ pc' = "done"
    /\ UNCHANGED <<envVars, mainVars, loopVars, readVars, plotVars, stdout, stderr>>

Next ==
    \/ MainStart
    \/ ScanFile
    \/ ScanOutput
    \/ ScanOutputIndexError
    \/ ScanSkip
    \/ ScanEnd
    \/ analyze_vcf_concordance
    \/ LoopNext
    \/ ReaderOpen
    \/ ReaderOpenFail
    \/ NextRecord
    \/ IterStop
    \/ IterError
    \/ Except
    \/ ReadReturn
    \/ VennPlot
    \/ UpsetPlot
    \/ Exit

Spec == Init /\ [][Next]_vars

\* ------------------------------------------------------------------ claims

Range(s) == {s[j] : j \in 1..Len(s)}

\* The identity of section 3 of the specification: chromosome, position,
\* reference allele, and the first alternate allele or the empty string.
FirstAlt(r) == IF Len(r.ALT) = 0 THEN "" ELSE Head(r.ALT)

Key(r) == <<r.CHROM, r.POS, r.REF, FirstAlt(r)>>

SameFour(r, s) ==
    /\ r.CHROM = s.CHROM
    /\ r.POS = s.POS
    /\ r.REF = s.REF
    /\ FirstAlt(r) = FirstAlt(s)

Rendered == figure.kind # "none"

Printed(stream, text) == \E j \in 1..Len(stream) : stream[j].text = text

PrintedWith(stream, text, arg) ==
    \E j \in 1..Len(stream) : stream[j].text = text /\ stream[j].arg = arg

VennNote ==
    "Venn diagrams are not recommended for more than 3 sets. Using UpSet plot instead."

SavedTexts == {"Venn diagram saved to", "UpSet plot saved to"}

\* C1: when the run has ended, exactly one of three outcomes happened, and
\* it is the one the number n of recognized inputs decides: n < 2, a
\* diagnostic and status 1 with no file opened and nothing drawn; n = 2 or
\* 3, the Venn diagram; n >= 4, the UpSet plot.
C1_OutcomeByCount ==
    pc = "done" =>
        \/ /\ Len(vcf_files) < 2
           /\ exit_status = Some(1)
           /\ stdout # <<>> \/ stderr # <<>>
           /\ opened = <<>>
           /\ ~Rendered
        \/ /\ Len(vcf_files) \in {2, 3}
           /\ figure.kind \in {"venn2", "venn3"}
        \/ /\ Len(vcf_files) >= 4
           /\ figure.kind = "upset"

C3_TwoInputsExitZero ==
    pc = "done" /\ Len(vcf_files) >= 2 =>
        /\ exit_status = Some(0)
        /\ opened = vcf_files
        /\ Rendered

\* C4: the two sets the Venn diagram of two inputs is drawn from are the
\* set of the first file and the set of the second, in that order, and its
\* regions are |A \ B|, |B \ A| and |A \cap B|.
C4_PairwiseSetsAreTheFiles ==
    figure.kind = "venn2" =>
        /\ figure.sets = <<fileSets[1], fileSets[2]>>
        /\ figure.regions = <<Cardinality(fileSets[1] \ fileSets[2]),
                              Cardinality(fileSets[2] \ fileSets[1]),
                              Cardinality(fileSets[1] \cap fileSets[2])>>

RECURSIVE SumBars(_, _)
SumBars(bars, pats) ==
    IF pats = {} THEN 0
    ELSE LET pat == CHOOSE x \in pats : TRUE
         IN bars[pat] + SumBars(bars, pats \ {pat})

\* C5: the UpSet plot gives every identity of any input file one pattern,
\* the set of the files that hold it, and the counts of the patterns add up
\* to the size of the union of the files' sets.
C5_PatternsCoverUnion ==
    figure.kind = "upset" =>
        LET union == UNION {fileSets[j] : j \in 1..Len(fileSets)}
        IN /\ DOMAIN figure.data = union
           /\ \A x \in union :
                  figure.data[x] = {labels[j] : j \in {m \in 1..Len(fileSets) :
                                                          x \in fileSets[m]}}
           /\ \A x \in union :
                  Cardinality(figure.data[x]) =
                      Cardinality({m \in 1..Len(fileSets) : x \in fileSets[m]})
           /\ SumBars(figure.bars, DOMAIN figure.bars) = Cardinality(union)

\* C6: for a file read without error, two of its records have the same
\* identity exactly when they agree on the four fields, the size of the set
\* is the number of distinct four-field combinations of the records, which
\* is at most the number of records, and no record gives the empty set.
C6_SetCountsDistinctKeys ==
    \A j \in 1..Len(fileSets) :
        LET recs == disk[vcf_files[j]].recs
        IN disk[vcf_files[j]].end = "eof" =>
            /\ \A r, s \in Range(recs) :
                   (variant_id(r) = variant_id(s)) <=> SameFour(r, s)
            /\ Cardinality(fileSets[j]) = Cardinality({Key(r) : r \in Range(recs)})
            /\ Cardinality(fileSets[j]) <= Len(recs)
            /\ recs = <<>> => fileSets[j] = {}

\* A file of three records, two of them one variant that differ in quality
\* and in the alleles after the first, was read into a set of two.
C6_Witness ==
    /\ Len(fileSets) >= 1
    /\ disk[vcf_files[1]].end = "eof"
    /\ Range(disk[vcf_files[1]].recs) = {R1, R2, R3}
    /\ Cardinality(fileSets[1]) = 2

\* C7: a run that draws the UpSet plot has printed the note that Venn
\* diagrams do not suit more than three sets.
C7_NoteBeforeUpset == figure.kind = "upset" => Printed(stdout, VennNote)

\* The path the claim gives the image for the value of --output.
Destination(path) ==
    IF path \in ExistingDirs THEN path \o <<"/">> \o DefaultName ELSE path

WrittenTo(dest) ==
    /\ saved = Some(dest)
    /\ ~shown
    /\ \E j \in 1..Len(stdout) : stdout[j].text \in SavedTexts /\ stdout[j].arg = dest
    /\ \A j \in 1..Len(stdout) : stdout[j].text \in SavedTexts => stdout[j].arg = dest

ShownOnly ==
    /\ saved = None
    /\ shown
    /\ \A j \in 1..Len(stdout) : stdout[j].text \notin SavedTexts

C10_OneSetPerFile ==
    pc = "plot" /\ IsInjective(vcf_files) =>
        /\ Cardinality(DOMAIN variant_sets) = Len(vcf_files)
        /\ \A j \in 1..Len(vcf_files) : variant_sets[labels[j]] = fileSets[j]

====
